---- MODULE Spec2Model ----
(***************************************************************************)
(* Model of the n-body drivers: the completed serial driver (the second    *)
(* main of nbody-s.c) and the OpenMP driver nbody-p3.c, with the helpers   *)
(* of helper_functions.h (euclidean_distance_sans_sqrt, gravitation,       *)
(* get_acceleration, save_position).                                       *)
(*                                                                         *)
(* Numbers: the C doubles are modelled by integers.  G and SOFTENING are   *)
(* rescaled to integers of a unit system in which forces between the       *)
(* bodies of the input table are non-zero; a double division is modelled   *)
(* by the quotient rounded toward zero and sqrt by the integer square      *)
(* root.  A size_t is an integer modulo SizeMod.                           *)
(***************************************************************************)
EXTENDS Integers, Sequences, FiniteSets, TLC

\* ---------------------------------------------------------------- bounds
MaxN == 2            \* most rows of an input file
MaxTime == 5         \* largest total-time argument
MaxTimeStep == 2     \* largest time-step argument
MaxReq == 3          \* largest outputs-per-body argument
MaxThreadArg == 1    \* largest num-threads argument
MaxCores == 4        \* largest value of get_num_cores_affinity()
SizeBits == 16       \* modelled width of size_t

\* ------------------------------------------------------------- constants
G == 10
SOFTENING == 1
SizeMod == 2 ^ SizeBits
UBExit == {0, 1, 139}

VARIABLES
    prog,          \* which driver runs: "nbody-s" or "nbody-p3"
    pc,            \* position of the main thread
    exit_status,   \* value returned by main (-1 while running)
    argc,
    time_step, total_time,
    argOutputs,    \* atoi(argv[3])
    argThreads,    \* atoi(argv[6])
    num_outputs, num_threads, num_steps, output_steps,
    input,         \* Matrix* input
    n,
    output,        \* output->data, a function on 0..num_outputs*3n-1
    position, velocity, mass,
    arraysOK,      \* <<position, velocity, mass>> mallocs succeeded
    t, si,         \* loop variables of the serial driver
    tpc, tt,       \* per worker thread: position and private loop variable t
    fx, fy, fz,    \* per worker thread: private force arrays
    fOK,           \* per worker thread: the three force mallocs succeeded
    wsForce, wsInteg, \* work-share state of the two "omp for" loops
    singleT,       \* step for which the "omp single" block has been claimed
    \* history variables
    inputRead,     \* matrix_from_npy_path has been called
    saved,         \* matrix_to_npy_path has been called
    allocFailed,   \* some allocation returned NULL
    nullDeref,     \* a NULL allocation has been dereferenced
    curStep,       \* last step of the step loop that has been started
    pos0,          \* positions at the start of step curStep
    forceDone,     \* bodies whose force-loop iteration of curStep is complete
    integCount,    \* per body: number of integrations in curStep
    forceRead,     \* per body: the force the integration of curStep read
    singleRuns,    \* executions of the snapshot block in curStep
    rowLog         \* rows passed to save_position, in call order

vars == <<prog, pc, exit_status, argc, time_step, total_time, argOutputs,
          argThreads, num_outputs, num_threads, num_steps, output_steps,
          input, n, output, position, velocity, mass, arraysOK, t, si,
          tpc, tt, fx, fy, fz, fOK, wsForce, wsInteg, singleT,
          inputRead, saved, allocFailed, nullDeref, curStep, pos0,
          forceDone, integCount, forceRead, singleRuns, rowLog>>

argVars == <<argc, time_step, total_time, argOutputs, argThreads>>
derivedVars == <<num_outputs, num_threads, num_steps, output_steps>>
bodyVars == <<position, velocity, mass>>
serialVars == <<t, si>>
threadVars == <<tpc, tt, fx, fy, fz, fOK, wsForce, wsInteg, singleT>>
stepHist == <<curStep, pos0, forceDone, integCount, forceRead, singleRuns>>

ThreadIds == 0 .. MaxN - 1
Active == {T \in ThreadIds : tpc[T] # "none"}

\* ------------------------------------------------------------ arithmetic
\* double division, rounded toward zero (b > 0)
Quot(a, b) == IF a >= 0 THEN a \div b ELSE -((-a) \div b)

\* sqrt of a non-negative number, rounded down
Isqrt(x) == CHOOSE r \in 0 .. x : r * r <= x /\ (r + 1) * (r + 1) > x

\* conversion of an int to size_t
ToSizeT(v) == v % SizeMod

Zeros(len) == [k \in 0 .. len - 1 |-> 0]

\* ----------------------------------------------------------- input files
\* row b of the input file: mass, position x y z, velocity x y z.  Bodies
\* 0 and 1 are close enough to attract each other; a body from row 2 on is
\* so far from them that its pair forces round to zero.
BodyRow(b) == <<1 + ((b + 1) % 2), 2 * b, b % 2, 9 * (b \div 2), b % 2, 1 - (b % 2), 0>>

NullInput == [isnull |-> TRUE, rows |-> 0, cols |-> 0, data |-> << >>]

InputMatrix(r, c) ==
    [isnull |-> FALSE, rows |-> r, cols |-> c,
     data |-> [k \in 0 .. r * c - 1 |-> BodyRow(k \div c)[(k % c) + 1]]]

InputFiles == {NullInput} \cup {InputMatrix(r, c) : r \in 0 .. MaxN, c \in {6, 7}}

\* ------------------------------------------------------ helper_functions
euclidean_distance_sans_sqrt(pos, i, j) ==
    LET x == pos[3 * i] - pos[3 * j]
        y == pos[3 * i + 1] - pos[3 * j + 1]
        z == pos[3 * i + 2] - pos[3 * j + 2]
    IN  x * x + y * y + z * z + SOFTENING

gravitation(mass_body_1, mass_body_2, distance) ==
    Quot(G * (mass_body_1 * mass_body_2), distance)

get_acceleration(force, m) == Quot(force, m)

\* save_position without the row stride: row r starts at cell r
save_position_unstrided(out, pos, output_row, nb) ==
    [c \in DOMAIN out |->
        IF c >= output_row /\ c < output_row + 3 * nb
        THEN pos[c - output_row]
        ELSE out[c]]

save_position(out, pos, output_row, nb) ==
    [c \in DOMAIN out |->
        IF c >= output_row * 3 * nb /\ c < output_row * 3 * nb + 3 * nb
        THEN pos[c - output_row * 3 * nb]
        ELSE out[c]]

\* ------------------------------------------------------------------ Init
Init ==
    /\ prog \in {"nbody-s", "nbody-p3"}
    /\ pc = "argc"
    /\ exit_status = -1
    /\ argc = 0 /\ time_step = 0 /\ total_time = 0
    /\ argOutputs = 0 /\ argThreads = 0
    /\ num_outputs = 0 /\ num_threads = 0 /\ num_steps = 0 /\ output_steps = 0
    /\ input = NullInput
    /\ n = 0
    /\ output = << >>
    /\ position = << >> /\ velocity = << >> /\ mass = << >>
    /\ arraysOK = <<FALSE, FALSE, FALSE>>
    /\ t = 0 /\ si = 0
    /\ tpc = [T \in ThreadIds |-> "none"]
    /\ tt = [T \in ThreadIds |-> 0]
    /\ fx = [T \in ThreadIds |-> << >>]
    /\ fy = [T \in ThreadIds |-> << >>]
    /\ fz = [T \in ThreadIds |-> << >>]
    /\ fOK = [T \in ThreadIds |-> FALSE]
    /\ wsForce = [t |-> 0, next |-> 0]
    /\ wsInteg = [t |-> 0, next |-> 0]
    /\ singleT = 0
    /\ inputRead = FALSE /\ saved = FALSE
    /\ allocFailed = FALSE /\ nullDeref = FALSE
    /\ curStep = 0
    /\ pos0 = << >>
    /\ forceDone = {}
    /\ integCount = << >>
    /\ forceRead = << >>
    /\ singleRuns = 0
    /\ rowLog = << >>

\* a failure check that returns 0
Fail_returns0 == pc' = "exit" /\ exit_status' = 0

\* return 1 from main
Fail == pc' = "exit" /\ exit_status' = 1

\* ------------------------------------------------------ argument parsing
CheckArgc ==
    /\ pc = "argc"
    /\ \E a \in {5, 6, 7} :
        /\ argc' = a
        /\ IF a # 6 /\ a # 7 THEN Fail
           ELSE pc' = "time" /\ UNCHANGED exit_status
    /\ UNCHANGED <<prog, time_step, total_time, argOutputs, argThreads,
                   derivedVars, input, n, output, bodyVars, arraysOK,
                   serialVars, threadVars, inputRead, saved, allocFailed,
                   nullDeref, stepHist, rowLog>>

ParseTime ==
    /\ pc = "time"
    /\ \E ts \in 0 .. MaxTimeStep, tot \in 0 .. MaxTime :
        /\ time_step' = ts /\ total_time' = tot
        /\ IF ts <= 0 \/ tot <= 0 \/ ts > tot THEN Fail
           ELSE pc' = "outputs" /\ UNCHANGED exit_status
    /\ UNCHANGED <<prog, argc, argOutputs, argThreads,
                   derivedVars, input, n, output, bodyVars, arraysOK,
                   serialVars, threadVars, inputRead, saved, allocFailed,
                   nullDeref, stepHist, rowLog>>

ParseOutputs ==
    /\ pc = "outputs"
    /\ \E v \in -1 .. MaxReq :
        /\ argOutputs' = v
        /\ num_outputs' = ToSizeT(v)
        /\ IF num_outputs' <= 0 THEN Fail
           ELSE /\ pc' = IF prog = "nbody-p3" THEN "threads" ELSE "read"
                /\ UNCHANGED exit_status
    /\ UNCHANGED <<prog, argc, time_step, total_time, argThreads,
                   num_threads, num_steps, output_steps,
                   input, n, output, bodyVars, arraysOK,
                   serialVars, threadVars, inputRead, saved, allocFailed,
                   nullDeref, stepHist, rowLog>>

\* the num-threads argument is drawn from 0 upward; without the argument the
\* default is half the cores
ParseThreads ==
    /\ pc = "threads"
    /\ \/ /\ argc = 7
          /\ \E v \in 0 .. MaxThreadArg :
                argThreads' = v /\ num_threads' = ToSizeT(v)
       \/ /\ argc # 7
          /\ \E cores \in 1 .. MaxCores :
                argThreads' = argThreads /\ num_threads' = cores \div 2
    /\ IF num_threads' <= 0 THEN Fail
       ELSE pc' = "read" /\ UNCHANGED exit_status
    /\ UNCHANGED <<prog, argc, time_step, total_time, argOutputs,
                   num_outputs, num_steps, output_steps,
                   input, n, output, bodyVars, arraysOK,
                   serialVars, threadVars, inputRead, saved, allocFailed,
                   nullDeref, stepHist, rowLog>>

ReadInput ==
    /\ pc = "read"
    /\ inputRead' = TRUE
    /\ \E m \in InputFiles :
        /\ input' = m
        /\ IF m.isnull \/ m.cols # 7 \/ m.rows = 0
           THEN Fail /\ UNCHANGED <<n, num_threads>>
           ELSE /\ n' = m.rows
                /\ num_threads' = IF prog = "nbody-p3" /\ num_threads > m.rows
                                  THEN m.rows ELSE num_threads
                /\ pc' = "derive" /\ UNCHANGED exit_status
    /\ UNCHANGED <<prog, argVars, num_outputs, num_steps, output_steps,
                   output, bodyVars, arraysOK,
                   serialVars, threadVars, saved, allocFailed,
                   nullDeref, stepHist, rowLog>>

\* (size_t)(total_time / time_step + 0.5)
RoundSteps(tot, ts) == (2 * tot + ts) \div (2 * ts)

ClampOutputs(steps, outs) == IF steps < outs THEN 1 ELSE outs

OutputSteps(steps, outs) == steps \div outs

\* row count without the rounding up
NumOutputs_floor(steps, osteps) == steps \div osteps

NumOutputs(steps, osteps) == (steps + osteps - 1) \div osteps

Derive ==
    /\ pc = "derive"
    /\ num_steps' = RoundSteps(total_time, time_step)
    /\ output_steps' = OutputSteps(num_steps', ClampOutputs(num_steps', num_outputs))
    /\ num_outputs' = NumOutputs(num_steps', output_steps')
    /\ pc' = "alloc_output"
    /\ UNCHANGED <<prog, exit_status, argVars, num_threads,
                   input, n, output, bodyVars, arraysOK,
                   serialVars, threadVars, inputRead, saved, allocFailed,
                   nullDeref, stepHist, rowLog>>

\* ------------------------------------------------------------ allocation
\* content of the cells of a matrix made by matrix_create_raw: indeterminate;
\* the values it is drawn from are values no position of a run takes
RawVals == {-77}

\* behaviour after a NULL allocation has been dereferenced
Undefined == pc' = "ub" /\ nullDeref' = TRUE /\ exit_status' \in UBExit

AllocOutput ==
    /\ pc = "alloc_output"
    /\ \E ok \in BOOLEAN :
        IF ok
        THEN /\ \E g \in RawVals :
                  output' = [c \in 0 .. num_outputs * 3 * n - 1 |-> g]
             /\ pc' = "alloc_arrays"
             /\ UNCHANGED <<exit_status, allocFailed>>
        ELSE /\ Fail
             /\ allocFailed' = TRUE
             /\ UNCHANGED output
    /\ UNCHANGED <<prog, argVars, derivedVars, input, n, bodyVars, arraysOK,
                   serialVars, threadVars, inputRead, saved,
                   nullDeref, stepHist, rowLog>>

AllocArrays ==
    /\ pc = "alloc_arrays"
    /\ \E okP \in BOOLEAN, okV \in BOOLEAN, okM \in BOOLEAN :
        /\ arraysOK' = <<okP, okV, okM>>
        /\ allocFailed' = (allocFailed \/ ~(okP /\ okV /\ okM))
    /\ pc' = "load"
    /\ UNCHANGED <<prog, exit_status, argVars, derivedVars, input, n, output,
                   bodyVars, serialVars, threadVars, inputRead, saved,
                   nullDeref, stepHist, rowLog>>

\* the loop that copies the input into mass, position and velocity
LoadedMass == [i \in 0 .. n - 1 |-> input.data[i * input.cols]]
LoadedPosition == [k \in 0 .. 3 * n - 1 |-> input.data[(k \div 3) * input.cols + 1 + (k % 3)]]
LoadedVelocity == [k \in 0 .. 3 * n - 1 |-> input.data[(k \div 3) * input.cols + 4 + (k % 3)]]

LoadBodies ==
    /\ pc = "load"
    /\ IF arraysOK # <<TRUE, TRUE, TRUE>>
       THEN /\ Undefined
            /\ UNCHANGED <<bodyVars, output, rowLog, t, tpc, tt>>
       ELSE /\ mass' = LoadedMass
            /\ position' = LoadedPosition
            /\ velocity' = LoadedVelocity
            /\ output' = save_position(output, position', 0, n)
            /\ rowLog' = Append(rowLog, 0)
            /\ IF prog = "nbody-p3"
               THEN /\ pc' = "parallel"
                    /\ tpc' = [T \in ThreadIds |->
                                  IF T < num_threads THEN "alloc" ELSE "none"]
                    /\ tt' = [T \in ThreadIds |-> IF T < num_threads THEN 1 ELSE 0]
                    /\ t' = t
               ELSE /\ pc' = "s_loop"
                    /\ t' = 1
                    /\ UNCHANGED <<tpc, tt>>
            /\ UNCHANGED <<exit_status, nullDeref>>
    /\ UNCHANGED <<prog, argVars, derivedVars, input, n, arraysOK, si,
                   fx, fy, fz, fOK, wsForce, wsInteg, singleT,
                   inputRead, saved, allocFailed, stepHist>>

\* ----------------------------------------------------------- integration
\* integration whose position update leaves out the time step
IntegrateBody_noDt(pos, vel, i, f) ==
    LET v2 == [k \in DOMAIN vel |->
                  IF k \div 3 = i
                  THEN vel[k] + get_acceleration(f[(k % 3) + 1], mass[i]) * time_step
                  ELSE vel[k]]
        p2 == [k \in DOMAIN pos |->
                  IF k \div 3 = i THEN pos[k] + v2[k] ELSE pos[k]]
    IN  [position |-> p2, velocity |-> v2]

\* velocity and position of body i advanced with the force f = <<x, y, z>>
IntegrateBody(pos, vel, i, f) ==
    LET v2 == [k \in DOMAIN vel |->
                  IF k \div 3 = i
                  THEN vel[k] + get_acceleration(f[(k % 3) + 1], mass[i]) * time_step
                  ELSE vel[k]]
        p2 == [k \in DOMAIN pos |->
                  IF k \div 3 = i THEN pos[k] + v2[k] * time_step ELSE pos[k]]
    IN  [position |-> p2, velocity |-> v2]

\* history: the first arrival at step s resets the per-step record
BeginStep(s) ==
    IF curStep # s
    THEN /\ curStep' = s
         /\ pos0' = position
         /\ forceDone' = {}
         /\ integCount' = Zeros(n)
         /\ forceRead' = [i \in 0 .. n - 1 |-> <<0, 0, 0>>]
         /\ singleRuns' = 0
    ELSE UNCHANGED stepHist

\* ---------------------------------------------------------- serial driver
\* the inner loop over j of the serial driver, from index j on
RECURSIVE SerialForce(_, _, _, _)
SerialForce(pos, i, j, f) ==
    IF j >= n THEN f
    ELSE IF i = j THEN SerialForce(pos, i, j + 1, f)
    ELSE LET distance == euclidean_distance_sans_sqrt(pos, i, j)
             force == gravitation(mass[i], mass[j], distance)
             accel == Quot(force, Isqrt(distance))
         IN  SerialForce(pos, i, j + 1,
                <<f[1] + accel * (pos[j * 3] - pos[i * 3]),
                  f[2] + accel * (pos[j * 3 + 1] - pos[i * 3 + 1]),
                  f[3] + accel * (pos[j * 3 + 2] - pos[i * 3 + 2])>>)

SerialLoop ==
    /\ pc = "s_loop"
    /\ IF t < num_steps
       THEN /\ pc' = "s_body"
            /\ si' = 0
            /\ BeginStep(t)
       ELSE /\ pc' = "final"
            /\ UNCHANGED <<si, stepHist>>
    /\ UNCHANGED <<prog, exit_status, argVars, derivedVars, input, n, output,
                   bodyVars, arraysOK, t, threadVars, inputRead, saved,
                   allocFailed, nullDeref, rowLog>>

SerialBody ==
    /\ pc = "s_body"
    /\ IF si < n
       THEN LET f == SerialForce(position, si, 0, <<0, 0, 0>>)
                b == IntegrateBody(position, velocity, si, f)
            IN  /\ position' = b.position
                /\ velocity' = b.velocity
                /\ forceDone' = forceDone \cup {si}
                /\ forceRead' = [forceRead EXCEPT ![si] = f]
                /\ integCount' = [integCount EXCEPT ![si] = @ + 1]
                /\ si' = si + 1
                /\ pc' = pc
       ELSE /\ pc' = "s_snap"
            /\ UNCHANGED <<position, velocity, forceDone, forceRead,
                           integCount, si>>
    /\ UNCHANGED <<prog, exit_status, argVars, derivedVars, input, n, output,
                   mass, arraysOK, t, threadVars, inputRead, saved,
                   allocFailed, nullDeref, curStep, pos0, singleRuns, rowLog>>

SnapshotDue(step) == step % output_steps = 0

\* in-loop row counted from the row after the initial one
SnapshotRow_next(step) == step \div output_steps + 1

SnapshotRow(step) == step \div output_steps

SerialSnapshot ==
    /\ pc = "s_snap"
    /\ IF SnapshotDue(t)
       THEN /\ output' = save_position(output, position, SnapshotRow(t), n)
            /\ rowLog' = Append(rowLog, SnapshotRow(t))
       ELSE UNCHANGED <<output, rowLog>>
    /\ singleRuns' = singleRuns + 1
    /\ t' = t + 1
    /\ pc' = "s_loop"
    /\ UNCHANGED <<prog, exit_status, argVars, derivedVars, input, n,
                   bodyVars, arraysOK, si, threadVars, inputRead, saved,
                   allocFailed, nullDeref, curStep, pos0, forceDone,
                   integCount, forceRead>>

\* -------------------------------------------------------- parallel driver
\* the inner loop over j of iteration i of the force loop, from index j on,
\* on the force arrays F = [fx, fy, fz] of the thread that runs it
RECURSIVE ForceInner(_, _, _, _)
ForceInner(F, pos, i, j) ==
    IF j >= n THEN F
    ELSE IF j >= i THEN ForceInner(F, pos, i, j + 1)
    ELSE LET distance == euclidean_distance_sans_sqrt(pos, i, j)
             force == gravitation(mass[i], mass[j], distance)
             accel == Quot(force, Isqrt(distance))
             dx == accel * (pos[j * 3] - pos[i * 3])
             dy == accel * (pos[j * 3 + 1] - pos[i * 3 + 1])
             dz == accel * (pos[j * 3 + 2] - pos[i * 3 + 2])
         IN  ForceInner([fx |-> [F.fx EXCEPT ![i] = @ + dx, ![j] = @ - dx],
                         fy |-> [F.fy EXCEPT ![i] = @ + dy, ![j] = @ - dy],
                         fz |-> [F.fz EXCEPT ![i] = @ + dz, ![j] = @ - dz]],
                        pos, i, j + 1)

\* order of the positions of a worker thread inside one iteration of the
\* step loop
PhaseIdx(p) ==
    CASE p = "alloc" -> 0
      [] p = "loop" -> 1
      [] p = "force" -> 2
      [] p = "bar1" -> 3
      [] p = "integ" -> 4
      [] p = "bar2" -> 5
      [] p = "single" -> 6
      [] p = "snap" -> 7
      [] p = "bar3" -> 8
      [] OTHER -> 9

\* arrival test that forgets the threads already in a later step
Reached_sameStep(U, s, p) == tt[U] = s /\ PhaseIdx(tpc[U]) >= PhaseIdx(p)

\* thread U has arrived at position p of step s, or is beyond it
Reached(U, s, p) == tt[U] > s \/ (tt[U] = s /\ PhaseIdx(tpc[U]) >= PhaseIdx(p))

\* a loop with "nowait": nothing holds a thread back
BarrierOpen_nowait(T, b) == TRUE

\* the implicit barrier b lets thread T through: the whole team has arrived
BarrierOpen(T, b) == \A U \in Active : Reached(U, tt[T], b)

\* next iteration of a dynamically scheduled loop for a thread in step s
NextIter(ws, s) == IF ws.t = s THEN ws.next ELSE 0

ThreadAlloc(T) ==
    /\ pc = "parallel" /\ tpc[T] = "alloc"
    /\ \E okx \in BOOLEAN, oky \in BOOLEAN, okz \in BOOLEAN :
        /\ fOK' = [fOK EXCEPT ![T] = okx /\ oky /\ okz]
        /\ allocFailed' = (allocFailed \/ ~(okx /\ oky /\ okz))
    /\ tpc' = [tpc EXCEPT ![T] = "loop"]
    /\ UNCHANGED <<prog, pc, exit_status, argVars, derivedVars, input, n,
                   output, bodyVars, arraysOK, serialVars, tt, fx, fy, fz,
                   wsForce, wsInteg, singleT, inputRead, saved,
                   nullDeref, stepHist, rowLog>>

ThreadLoop(T) ==
    /\ pc = "parallel" /\ tpc[T] = "loop"
    /\ IF tt[T] < num_steps
       THEN IF fOK[T]
            THEN /\ fx' = [fx EXCEPT ![T] = Zeros(n)]
                 /\ fy' = [fy EXCEPT ![T] = Zeros(n)]
                 /\ fz' = [fz EXCEPT ![T] = Zeros(n)]
                 /\ tpc' = [tpc EXCEPT ![T] = "force"]
                 /\ BeginStep(tt[T])
                 /\ UNCHANGED <<pc, exit_status, nullDeref>>
            ELSE /\ Undefined
                 /\ UNCHANGED <<fx, fy, fz, tpc, stepHist>>
       ELSE /\ tpc' = [tpc EXCEPT ![T] = "end"]
            /\ UNCHANGED <<pc, exit_status, nullDeref, fx, fy, fz, stepHist>>
    /\ UNCHANGED <<prog, argVars, derivedVars, input, n, output, bodyVars,
                   arraysOK, serialVars, tt, fOK, wsForce, wsInteg, singleT,
                   inputRead, saved, allocFailed, rowLog>>

ThreadForce(T) ==
    /\ pc = "parallel" /\ tpc[T] = "force"
    /\ LET i == NextIter(wsForce, tt[T])
       IN  IF i < n
           THEN LET F == ForceInner([fx |-> fx[T], fy |-> fy[T], fz |-> fz[T]],
                                    position, i, 0)
                IN  /\ fx' = [fx EXCEPT ![T] = F.fx]
                    /\ fy' = [fy EXCEPT ![T] = F.fy]
                    /\ fz' = [fz EXCEPT ![T] = F.fz]
                    /\ wsForce' = [t |-> tt[T], next |-> i + 1]
                    /\ forceDone' = forceDone \cup {i}
                    /\ UNCHANGED tpc
           ELSE /\ tpc' = [tpc EXCEPT ![T] = "bar1"]
                /\ UNCHANGED <<fx, fy, fz, wsForce, forceDone>>
    /\ UNCHANGED <<prog, pc, exit_status, argVars, derivedVars, input, n,
                   output, bodyVars, arraysOK, serialVars, tt, fOK,
                   wsInteg, singleT, inputRead, saved, allocFailed,
                   nullDeref, curStep, pos0, integCount, forceRead,
                   singleRuns, rowLog>>

\* a thread leaves one of the three implicit barriers of the step
PassBarrier(T, b, to) ==
    /\ pc = "parallel" /\ tpc[T] = b
    /\ BarrierOpen(T, b)
    /\ tpc' = [tpc EXCEPT ![T] = to]
    /\ UNCHANGED <<prog, pc, exit_status, argVars, derivedVars, input, n,
                   output, bodyVars, arraysOK, serialVars, fx, fy, fz, fOK,
                   wsForce, wsInteg, singleT, inputRead, saved, allocFailed,
                   nullDeref, stepHist, rowLog>>

ForceBarrier(T) == PassBarrier(T, "bar1", "integ") /\ UNCHANGED tt

IntegBarrier(T) == PassBarrier(T, "bar2", "single") /\ UNCHANGED tt

SingleBarrier(T) ==
    PassBarrier(T, "bar3", "loop") /\ tt' = [tt EXCEPT ![T] = @ + 1]

ThreadInteg(T) ==
    /\ pc = "parallel" /\ tpc[T] = "integ"
    /\ LET i == NextIter(wsInteg, tt[T])
       IN  IF i < n
           THEN LET f == <<fx[T][i], fy[T][i], fz[T][i]>>
                    b == IntegrateBody(position, velocity, i, f)
                IN  /\ position' = b.position
                    /\ velocity' = b.velocity
                    /\ wsInteg' = [t |-> tt[T], next |-> i + 1]
                    /\ forceRead' = [forceRead EXCEPT ![i] = f]
                    /\ integCount' = [integCount EXCEPT ![i] = @ + 1]
                    /\ UNCHANGED tpc
           ELSE /\ tpc' = [tpc EXCEPT ![T] = "bar2"]
                /\ UNCHANGED <<position, velocity, wsInteg, forceRead,
                               integCount>>
    /\ UNCHANGED <<prog, pc, exit_status, argVars, derivedVars, input, n,
                   output, mass, arraysOK, serialVars, tt, fx, fy, fz, fOK,
                   wsForce, singleT, inputRead, saved, allocFailed,
                   nullDeref, curStep, pos0, forceDone, singleRuns, rowLog>>

\* "omp single": the first thread to arrive takes the block, the others
\* go on to the barrier at its end
ThreadSingle(T) ==
    /\ pc = "parallel" /\ tpc[T] = "single"
    /\ IF singleT # tt[T]
       THEN /\ singleT' = tt[T]
            /\ tpc' = [tpc EXCEPT ![T] = "snap"]
       ELSE /\ tpc' = [tpc EXCEPT ![T] = "bar3"]
            /\ UNCHANGED singleT
    /\ UNCHANGED <<prog, pc, exit_status, argVars, derivedVars, input, n,
                   output, bodyVars, arraysOK, serialVars, tt, fx, fy, fz,
                   fOK, wsForce, wsInteg, inputRead, saved, allocFailed,
                   nullDeref, stepHist, rowLog>>

ThreadSnapshot(T) ==
    /\ pc = "parallel" /\ tpc[T] = "snap"
    /\ IF SnapshotDue(tt[T])
       THEN /\ output' = save_position(output, position, SnapshotRow(tt[T]), n)
            /\ rowLog' = Append(rowLog, SnapshotRow(tt[T]))
       ELSE UNCHANGED <<output, rowLog>>
    /\ singleRuns' = singleRuns + 1
    /\ tpc' = [tpc EXCEPT ![T] = "bar3"]
    /\ UNCHANGED <<prog, pc, exit_status, argVars, derivedVars, input, n,
                   bodyVars, arraysOK, serialVars, tt, fx, fy, fz, fOK,
                   wsForce, wsInteg, singleT, inputRead, saved, allocFailed,
                   nullDeref, curStep, pos0, forceDone, integCount,
                   forceRead>>

\* end of the parallel region: the master goes on when the team is done
Join ==
    /\ pc = "parallel"
    /\ \A T \in Active : tpc[T] = "end"
    /\ pc' = "final"
    /\ UNCHANGED <<prog, exit_status, argVars, derivedVars, input, n, output,
                   bodyVars, arraysOK, serialVars, threadVars, inputRead,
                   saved, allocFailed, nullDeref, stepHist, rowLog>>

\* ------------------------------------------------------------ finalizing
\* post-loop write done unconditionally
NeedFinalWrite_always == TRUE

NeedFinalWrite == num_steps % output_steps # 0

FinalWrite ==
    /\ pc = "final"
    /\ IF NeedFinalWrite
       THEN /\ output' = save_position(output, position, num_outputs - 1, n)
            /\ rowLog' = Append(rowLog, num_outputs - 1)
       ELSE UNCHANGED <<output, rowLog>>
    /\ pc' = "save"
    /\ UNCHANGED <<prog, exit_status, argVars, derivedVars, input, n,
                   bodyVars, arraysOK, serialVars, threadVars, inputRead,
                   saved, allocFailed, nullDeref, stepHist>>

SaveOutput ==
    /\ pc = "save"
    /\ saved' = TRUE
    /\ pc' = "done"
    /\ exit_status' = 0
    /\ UNCHANGED <<prog, argVars, derivedVars, input, n, output,
                   bodyVars, arraysOK, serialVars, threadVars, inputRead,
                   allocFailed, nullDeref, stepHist, rowLog>>

Next == CheckArgc \/ ParseTime \/ ParseOutputs \/ ParseThreads \/ ReadInput
        \/ Derive \/ AllocOutput \/ AllocArrays \/ LoadBodies
        \/ SerialLoop \/ SerialBody \/ SerialSnapshot
        \/ (\E T \in ThreadIds : ThreadAlloc(T))
        \/ (\E T \in ThreadIds : ThreadLoop(T))
        \/ (\E T \in ThreadIds : ThreadForce(T))
        \/ (\E T \in ThreadIds : ForceBarrier(T))
        \/ (\E T \in ThreadIds : ThreadInteg(T))
        \/ (\E T \in ThreadIds : IntegBarrier(T))
        \/ (\E T \in ThreadIds : ThreadSingle(T))
        \/ (\E T \in ThreadIds : ThreadSnapshot(T))
        \/ (\E T \in ThreadIds : SingleBarrier(T))
        \/ Join
        \/ FinalWrite \/ SaveOutput

Spec == Init /\ [][Next]_vars

\* every runnable thread is eventually scheduled: a run does not stop while
\* some statement of the main thread or of a worker can be executed
Fairness == WF_vars(Next)

SpecFair == Spec /\ Fairness

\* front end only: argument parsing, input reading and derived parameters
NextFront == CheckArgc \/ ParseTime \/ ParseOutputs \/ ParseThreads
             \/ ReadInput \/ Derive

SpecFront == Init /\ [][NextFront]_vars

\* ------------------------------------------- the save_position definitions
\* save_position of math_helper.h: the cells start at index output_row
save_position_math_helper(out, pos, output_row, nb) ==
    [c \in DOMAIN out |->
        IF c >= output_row /\ c < output_row + 3 * nb
        THEN pos[c - output_row]
        ELSE out[c]]

\* save_position of the second unnamed header: the same body as math_helper.h
save_position_part_001(out, pos, output_row, nb) ==
    [c \in DOMAIN out |->
        IF c >= output_row /\ c < output_row + 3 * nb
        THEN pos[c - output_row]
        ELSE out[c]]

\* the files that define save_position
SaveDefs == {"math_helper.h", "part_001", "part_002"}

\* save_position as the file def defines it
SavePositionOf(def, out, pos, output_row, nb) ==
    CASE def = "math_helper.h" -> save_position_math_helper(out, pos, output_row, nb)
      [] def = "part_001" -> save_position_part_001(out, pos, output_row, nb)
      [] def = "part_002" -> save_position(out, pos, output_row, nb)

\* a position array of nb bodies whose values tell the calls and cells apart
TestPosition(call, v, nb) == [k \in 0 .. 3 * nb - 1 |-> 100 * call + 10 * v + k]

\* a raw num_outputs x 3n output buffer and one of the definitions (in prog)
InitSave ==
    /\ prog \in SaveDefs
    /\ pc = "save_position"
    /\ exit_status = -1
    /\ argc = 0 /\ time_step = 0 /\ total_time = 0
    /\ argOutputs = 0 /\ argThreads = 0
    /\ n \in 1 .. MaxN
    /\ num_outputs \in 1 .. MaxReq
    /\ num_threads = 0 /\ num_steps = 0 /\ output_steps = 0
    /\ input = NullInput
    /\ \E g \in RawVals : output = [c \in 0 .. num_outputs * 3 * n - 1 |-> g]
    /\ position = TestPosition(0, 0, n)
    /\ velocity = << >> /\ mass = << >>
    /\ arraysOK = <<TRUE, TRUE, TRUE>>
    /\ t = 0 /\ si = 0
    /\ tpc = [T \in ThreadIds |-> "none"]
    /\ tt = [T \in ThreadIds |-> 0]
    /\ fx = [T \in ThreadIds |-> << >>]
    /\ fy = [T \in ThreadIds |-> << >>]
    /\ fz = [T \in ThreadIds |-> << >>]
    /\ fOK = [T \in ThreadIds |-> FALSE]
    /\ wsForce = [t |-> 0, next |-> 0]
    /\ wsInteg = [t |-> 0, next |-> 0]
    /\ singleT = 0
    /\ inputRead = FALSE /\ saved = FALSE
    /\ allocFailed = FALSE /\ nullDeref = FALSE
    /\ curStep = 0
    /\ pos0 = << >>
    /\ forceDone = {}
    /\ integCount = << >>
    /\ forceRead = << >>
    /\ singleRuns = 0
    /\ rowLog = << >>

\* one call save_position(output, position, r, n) with a row of the buffer;
\* at most num_outputs calls are made
CallSavePosition ==
    /\ pc = "save_position"
    /\ Len(rowLog) < num_outputs
    /\ \E r \in 0 .. num_outputs - 1, v \in 1 .. 2 :
        /\ position' = TestPosition(Len(rowLog) + 1, v, n)
        /\ output' = SavePositionOf(prog, output, position', r, n)
        /\ rowLog' = Append(rowLog, r)
    /\ UNCHANGED <<prog, pc, exit_status, argVars, derivedVars, input, n,
                   velocity, mass, arraysOK, serialVars, threadVars,
                   inputRead, saved, allocFailed, nullDeref, stepHist>>

NextSave == CallSavePosition

SpecSave == InitSave /\ [][NextSave]_vars

\* ================================================================ claims
\* force on body i due to body j at the positions pos, as <<x, y, z>>
PairForce(pos, i, j) ==
    LET d == euclidean_distance_sans_sqrt(pos, i, j)
        a == Quot(gravitation(mass[i], mass[j], d), Isqrt(d))
    IN  <<a * (pos[3 * j] - pos[3 * i]),
          a * (pos[3 * j + 1] - pos[3 * i + 1]),
          a * (pos[3 * j + 2] - pos[3 * i + 2])>>

RECURSIVE SumPairs(_, _, _)
SumPairs(pos, i, J) ==
    IF J = {} THEN <<0, 0, 0>>
    ELSE LET j == CHOOSE x \in J : TRUE
             r == SumPairs(pos, i, J \ {j})
             p == PairForce(pos, i, j)
         IN  <<r[1] + p[1], r[2] + p[2], r[3] + p[3]>>

\* sum over all j # i of the pairwise force on i due to j
NetForce(pos, i) == SumPairs(pos, i, (0 .. n - 1) \ {i})

\* the arguments are ones the drivers are meant to accept
ValidArgs == argOutputs >= 1

InP3 == prog = "nbody-p3" /\ ValidArgs

\* C1: in nbody-p3 the force the integration phase of a step reads for
\* body i equals the sum over all j # i of the pairwise force on i due to j
\* at the positions of the start of that step, whatever the thread count
\* and the assignment of iterations to threads.
C1_ForceIsFullSum ==
    InP3 => \A i \in DOMAIN integCount :
                integCount[i] > 0 => forceRead[i] = NetForce(pos0, i)

\* C2: in both drivers no body's position or velocity is modified in a step
\* until the forces on all n bodies for that step have been computed, and
\* each body is integrated exactly once per step.
C2_ForcesBeforeIntegration ==
    ValidArgs =>
    /\ (\E i \in DOMAIN integCount : integCount[i] > 0)
          => forceDone = 0 .. n - 1
    /\ \A i \in DOMAIN integCount : integCount[i] <= 1
    /\ (pc = "s_snap" \/ \E T \in ThreadIds : tpc[T] = "snap")
          => \A i \in DOMAIN integCount : integCount[i] = 1

\* C3: when the run finishes, the last output row (row num_outputs-1) equals
\* the position vector after the final executed step of the step loop.
C3_LastRowIsFinal ==
    (pc = "done" /\ ValidArgs) =>
        \A k \in 0 .. 3 * n - 1 :
            output[(num_outputs - 1) * 3 * n + k] = position[k]

\* number of save_position calls on row r so far
Writes(r) == Cardinality({k \in 1 .. Len(rowLog) : rowLog[k] = r})

Rows == 0 .. num_outputs - 1

\* C4 (as stated): over a whole run every output row is written exactly
\* once, in strictly increasing row order, and no written row is written
\* again.
C4_WrittenOnce ==
    ValidArgs =>
    /\ \A k \in 1 .. Len(rowLog) - 1 : rowLog[k] < rowLog[k + 1]
    /\ pc = "done" => \A r \in Rows : Writes(r) = 1

\* C4 (amended): rows are written in non-decreasing row order; every row
\* before the last is written exactly once; the last row is written once
\* when num_steps mod output_steps = 0 and twice otherwise, the second time
\* by the post-loop write, which replaces the in-loop snapshot of that row.
C4_LastRowRewritten ==
    ValidArgs =>
    /\ \A k \in 1 .. Len(rowLog) - 1 : rowLog[k] <= rowLog[k + 1]
    /\ \A r \in Rows :
          Writes(r) > 1 => /\ r = num_outputs - 1
                           /\ Writes(r) = 2
                           /\ num_steps % output_steps # 0
                           /\ pc \in {"save", "done"}
    /\ pc = "done" =>
          /\ \A r \in Rows : Writes(r) >= 1
          /\ \A k \in 1 .. Len(rowLog) : rowLog[k] \in Rows
          /\ Writes(num_outputs - 1) =
                IF num_steps % output_steps # 0 THEN 2 ELSE 1

\* a finished run whose post-loop write rewrote the last of three rows
C4_Witness ==
    /\ pc = "done" /\ ValidArgs
    /\ num_outputs >= 3
    /\ Writes(num_outputs - 1) = 2
    /\ Len(rowLog) = num_outputs + 1

\* ---- the run of nbody-p3 with one thread, as a function of the inputs
\* force loop of one step, all iterations from i on in one thread's arrays
RECURSIVE OneThreadForces(_, _, _)
OneThreadForces(F, pos, i) ==
    IF i >= n THEN F
    ELSE OneThreadForces(ForceInner(F, pos, i, 0), pos, i + 1)

\* integration loop of one step, all iterations from i on
RECURSIVE OneThreadIntegrate(_, _, _)
OneThreadIntegrate(b, F, i) ==
    IF i >= n THEN b
    ELSE OneThreadIntegrate(
            IntegrateBody(b.position, b.velocity, i, <<F.fx[i], F.fy[i], F.fz[i]>>),
            F, i + 1)

\* the step loop from step s on, then the post-loop write
RECURSIVE OneThreadRun(_, _, _)
OneThreadRun(s, b, out) ==
    IF s >= num_steps
    THEN IF num_steps % output_steps # 0
         THEN save_position(out, b.position, num_outputs - 1, n)
         ELSE out
    ELSE LET F == OneThreadForces([fx |-> Zeros(n), fy |-> Zeros(n), fz |-> Zeros(n)],
                                  b.position, 0)
             b2 == OneThreadIntegrate(b, F, 0)
         IN  OneThreadRun(s + 1, b2,
                IF s % output_steps = 0
                THEN save_position(out, b2.position, s \div output_steps, n)
                ELSE out)

OneThreadOutput ==
    OneThreadRun(1, [position |-> LoadedPosition, velocity |-> LoadedVelocity],
                 save_position([c \in DOMAIN output |-> CHOOSE g \in RawVals : TRUE],
                               LoadedPosition, 0, n))

\* C5: for the same input and parameters nbody-p3 produces with k > 1
\* threads, under any schedule, the output rows it produces with 1 thread.
C5_SameAsOneThread ==
    (InP3 /\ pc = "done") => output = OneThreadOutput

\* thread U has not yet finished phase p of step s (p = "force" or "integ":
\* it has still to arrive at the barrier that ends the phase)
Unfinished(U, s, p) ==
    \/ tt[U] < s
    \/ tt[U] = s /\ PhaseIdx(tpc[U]) <= PhaseIdx(p)

\* thread T reads or mutates positions of step s
UsesPositions(T, s) == tt[T] = s /\ tpc[T] \in {"force", "integ", "snap"}

\* C6: in nbody-p3, in every step and every interleaving: no thread is in
\* the integration phase of a step before every thread has finished the
\* force phase of that step; the snapshot block of a step is run by exactly
\* one thread, and only after every thread has finished the integration
\* phase of that step; and no thread reads or mutates positions for step
\* t+1 until the snapshot block of step t has completed.
C6_PhaseOrder ==
    /\ \A T \in Active, U \in Active :
          tpc[T] = "integ" => ~Unfinished(U, tt[T], "force")
    /\ \A T \in Active, U \in Active :
          tpc[T] = "snap" => /\ ~Unfinished(U, tt[T], "integ")
                             /\ (U # T => tpc[U] # "snap")
    /\ singleRuns <= 1
    /\ \A T \in Active :
          (tpc[T] = "loop" /\ tt[T] = curStep + 1 /\ curStep >= 1)
             => singleRuns = 1
    /\ \A T \in Active, U \in Active :
          (tt[T] >= 2 /\ tpc[T] \in {"force", "bar1", "integ"})
             => /\ singleT >= tt[T] - 1
                /\ ~(tt[U] < tt[T] /\ tpc[U] \in {"single", "snap"})
                /\ ~UsesPositions(U, tt[T] - 1)

\* two threads, second step or later: one runs the snapshot block while the
\* other waits at the barrier that follows it
C6_Witness ==
    /\ num_threads = 2
    /\ \E T \in Active, U \in Active :
          /\ tpc[T] = "snap" /\ tt[T] >= 2
          /\ tpc[U] = "bar3" /\ tt[U] = tt[T]

\* least q with q * b >= a
CeilDiv(a, b) == CHOOSE q \in 0 .. a : q * b >= a /\ (q - 1) * b < a

MaxOf(a, b) == IF a >= b THEN a ELSE b

Derived == pc \notin {"argc", "time", "outputs", "threads", "read", "derive", "exit"}

\* C7 (as stated): for num_steps >= 1 and a request >= 1 the driver derives
\* output_steps = max(1, floor(num_steps / request)) and allocates
\* ceil(num_steps / output_steps) rows.
C7_MaxOneFloor ==
    (Derived /\ ValidArgs) =>
        /\ output_steps = MaxOf(1, num_steps \div argOutputs)
        /\ num_outputs = CeilDiv(num_steps, output_steps)

\* C7 (amended): a request larger than num_steps is replaced by 1; then
\* output_steps = floor(num_steps / request), which is num_steps itself for
\* a replaced request, and ceil(num_steps / output_steps) rows are
\* allocated.
C7_RequestReplacedByOne ==
    (Derived /\ ValidArgs) =>
        /\ num_steps >= 1
        /\ output_steps = num_steps \div (IF argOutputs > num_steps THEN 1 ELSE argOutputs)
        /\ output_steps >= 1
        /\ num_outputs = CeilDiv(num_steps, output_steps)

\* parameters derived from a request larger than num_steps >= 2
C7_Witness ==
    /\ pc = "alloc_output" /\ ValidArgs
    /\ argOutputs > num_steps /\ num_steps >= 2
    /\ output_steps = num_steps /\ num_outputs = 1

\* C8: in nbody-p3 and in the completed serial driver row 0 of the output
\* holds the initial positions read from the input from the first write on
\* and when the output is saved: no in-loop and no post-loop write targets
\* or overlaps row 0.
C8_RowZeroInitial ==
    (Len(rowLog) >= 1 /\ ValidArgs) =>
        /\ \A k \in 0 .. 3 * n - 1 :
              output[k] = input.data[(k \div 3) * 7 + 1 + (k % 3)]
        /\ \A k \in 2 .. Len(rowLog) : rowLog[k] # 0

\* the output has been saved after in-loop writes and the post-loop write
C8_Witness ==
    /\ saved /\ ValidArgs
    /\ Len(rowLog) >= 4
    /\ num_steps % output_steps # 0
    /\ n >= 2

\* C9: every non-positive outputs-per-body argument and every non-positive
\* num-threads argument is rejected with exit status 1 before the input
\* file is read and before any step is computed.
C9_NonPositiveRejected ==
    (\/ argOutputs <= 0 /\ pc \notin {"argc", "time", "outputs"}
     \/ /\ prog = "nbody-p3" /\ argc = 7 /\ argThreads <= 0
        /\ pc \notin {"argc", "time", "outputs", "threads"})
    => /\ pc = "exit" /\ exit_status = 1
       /\ ~inputRead
       /\ curStep = 0

\* C10: if any allocation fails the run terminates with exit status 1,
\* without dereferencing the failed allocation and without executing any
\* simulation step.
C10_AllocFailureExits ==
    allocFailed =>
        /\ ~nullDeref
        /\ curStep = 0
        /\ pc # "done"
        /\ pc \in {"exit", "ub"} => exit_status = 1

\* the failure conditions the driver tests, once the statement that tests
\* them has run
FailureDetected ==
    \/ pc # "argc" /\ argc # 6 /\ argc # 7
    \/ /\ pc \notin {"argc", "time"} /\ argc \in {6, 7}
       /\ (time_step <= 0 \/ total_time <= 0 \/ time_step > total_time)
    \/ /\ pc \notin {"argc", "time", "outputs"} /\ time_step >= 1
       /\ ToSizeT(argOutputs) = 0
    \/ /\ prog = "nbody-p3" /\ argc = 7 /\ inputRead
       /\ ToSizeT(argThreads) = 0
    \/ inputRead /\ (input.isnull \/ input.cols # 7 \/ input.rows = 0)
    \/ allocFailed /\ output = << >>

\* C11: on every failure path of the driver (wrong argument count, invalid
\* times, invalid outputs-per-body or num-threads, unreadable input, column
\* count other than 7, zero rows, output allocation failure) main returns a
\* non-zero status and the output file is never written;
\* matrix_to_npy_path is called only on the path that returns 0.
C11_FailureWritesNothing ==
    /\ FailureDetected => pc = "exit"
    /\ pc = "exit" => exit_status \notin {-1, 0} /\ ~saved
    /\ saved => pc = "done" /\ exit_status = 0

\* the run has ended on the failure of the output allocation, after the
\* arguments and the input were accepted
C11_Witness ==
    /\ pc = "exit"
    /\ inputRead /\ ~input.isnull /\ input.rows >= 1
    /\ allocFailed

\* number of steps of the step loop body 0 has been taken through
StepsExecuted == IF curStep = 0 THEN 0 ELSE curStep - 1 + integCount[0]

\* where the initial position and velocity lead after k steps without force
Linear(k) == [c \in 0 .. 3 * n - 1 |->
                 LoadedPosition[c] + k * time_step * LoadedVelocity[c]]

\* number of steps executed when the content of row r was written: the
\* in-loop snapshot of row r is taken in step r * output_steps, the
\* post-loop write of the last row after the num_steps - 1 steps of the loop
StepsWhenWritten(r) ==
    IF r = num_outputs - 1 /\ pc \in {"save", "done"}
       /\ num_steps % output_steps # 0
    THEN num_steps - 1
    ELSE r * output_steps

\* C12: for a single body the accumulated force is zero in every step, the
\* velocity keeps its initial value, after k executed steps the position
\* is the initial position plus k * time_step * initial velocity, and
\* every written output row holds the position of the number of steps
\* executed when it was written.
C12_SingleBodyLinear ==
    (n = 1 /\ rowLog # << >>) =>
        /\ \A i \in DOMAIN forceRead : forceRead[i] = <<0, 0, 0>>
        /\ \A T \in Active :
              /\ fx[T] \in {<< >>, Zeros(1)}
              /\ fy[T] \in {<< >>, Zeros(1)}
              /\ fz[T] \in {<< >>, Zeros(1)}
        /\ velocity = LoadedVelocity
        /\ position = Linear(StepsExecuted)
        /\ \A r \in Rows :
              Writes(r) > 0 =>
                 \A c \in 0 .. 2 : output[3 * r + c] = Linear(StepsWhenWritten(r))[c]

\* a finished run of one moving body with time step 2, two executed steps
\* and three written rows
C12_Witness ==
    /\ n = 1 /\ pc = "done"
    /\ time_step = 2 /\ curStep >= 2
    /\ LoadedVelocity # Zeros(3)
    /\ Len(rowLog) >= 3

\* the states of a run: Initialized once the bodies are loaded and row 0 is
\* written, Stepping from the start of step 1, Finalizing after the loop
RunState ==
    CASE pc \in {"s_loop", "s_body", "s_snap", "parallel"} ->
            IF curStep = 0 THEN "Initialized" ELSE "Stepping"
      [] pc \in {"final", "save"} -> "Finalizing"
      [] pc = "done" -> "Done"
      [] pc = "ub" -> "Undefined"
      [] pc = "exit" -> "Failed"
      [] OTHER -> "Starting"

\* step curStep has run every force iteration, integrated every body once
\* and executed the snapshot block once
StepComplete ==
    /\ forceDone = 0 .. n - 1
    /\ \A i \in 0 .. n - 1 : integCount[i] = 1
    /\ singleRuns = 1

\* inside a step: a body is integrated after its force iteration, and the
\* snapshot block runs after every body has been integrated
StepOrdered ==
    curStep >= 1 =>
        /\ \A i \in 0 .. n - 1 : integCount[i] > 0 => i \in forceDone
        /\ \A i \in 0 .. n - 1 : integCount[i] <= 1
        /\ singleRuns > 0 => \A i \in 0 .. n - 1 : integCount[i] = 1
        /\ singleRuns <= 1

\* the steps of a run are 1, 2, ... num_steps - 1, each begun after the one
\* before is complete; the loop is left after the last of them, with every
\* worker thread at the same iteration count
LoopExact ==
    /\ curStep' # curStep =>
          /\ curStep' = curStep + 1
          /\ curStep' <= num_steps - 1
          /\ curStep >= 1 => StepComplete
    /\ (RunState' = "Finalizing" /\ RunState # "Finalizing") =>
          /\ curStep = num_steps - 1
          /\ curStep >= 1 => StepComplete
          /\ \A T \in Active : tpc[T] = "end" /\ tt[T] = num_steps

StateOrder ==
    RunState' # RunState =>
        \/ RunState = "Starting" /\ RunState' \in {"Starting", "Initialized", "Failed"}
        \/ RunState = "Initialized" /\ RunState' = "Stepping"
        \/ RunState = "Initialized" /\ RunState' = "Finalizing" /\ num_steps = 1
        \/ RunState = "Stepping" /\ RunState' = "Finalizing"
        \/ RunState = "Finalizing" /\ RunState' = "Done"
        \/ RunState' = "Undefined" /\ allocFailed

\* C13: a run that passes validation and allocation goes Initialized ->
\* Stepping -> Finalizing -> Done and eventually reaches Done; the step
\* loop executes exactly the iterations 1 .. num_steps - 1, each with its
\* force accumulation, integration and snapshot block, and is not left
\* early; in nbody-p3 every worker thread executes the same number of
\* iterations and passes every barrier, so none waits forever.
C13_ReachesDone ==
    /\ []StepOrdered
    /\ [][StateOrder /\ LoopExact]_vars
    /\ (RunState = "Initialized") ~> (pc = "done" \/ allocFailed)

\* a finished run of two worker threads through four steps
C13_Witness ==
    /\ pc = "done" /\ ~allocFailed
    /\ prog = "nbody-p3" /\ num_threads = 2
    /\ curStep = 4 /\ num_steps = 5
    /\ \A T \in Active : tt[T] = 5

\* C14: every definition of save_position, called as
\* save_position(output, position, r, n) on a num_outputs x 3n row-major
\* buffer, writes position[k] to cell r * 3n + k for every k in 0 .. 3n - 1
\* and leaves every other cell unchanged.
C14_RowStride ==
    [][rowLog' # rowLog =>
          LET r == rowLog'[Len(rowLog')]
          IN  \A c \in DOMAIN output' :
                 output'[c] = IF c >= r * 3 * n /\ c < r * 3 * n + 3 * n
                              THEN position'[c - r * 3 * n]
                              ELSE output[c]]_vars

\* C15: in nbody-p3, for every accepted num_steps >= 1 and outputs-per-body,
\* output_steps >= 1, every snapshot write (row 0, the in-loop rows, the
\* post-loop row) targets a row below the allocated num_outputs, and when
\* the output is saved every row of the raw buffer has been written.
C15_RowsWithinBuffer ==
    (prog = "nbody-p3" /\ Derived) =>
        /\ num_steps >= 1
        /\ output_steps >= 1
        /\ num_outputs >= 1
        /\ output # << >> => DOMAIN output = 0 .. num_outputs * 3 * n - 1
        /\ \A k \in 1 .. Len(rowLog) : rowLog[k] >= 0 /\ rowLog[k] < num_outputs
        /\ saved => /\ \A r \in Rows : Writes(r) >= 1
                    /\ \A c \in DOMAIN output : output[c] \notin RawVals

\* the parallel driver has saved three rows of two bodies, taken every
\* second step by two threads
C15_Witness ==
    /\ prog = "nbody-p3" /\ saved
    /\ num_threads = 2 /\ n = 2
    /\ num_outputs = 3 /\ output_steps = 2
    /\ \A r \in Rows : Writes(r) >= 1
====
